---------------------------- MODULE Spec2Model ----------------------------
(***************************************************************************)
(* Model of the opus conversion pipeline under .local/bin:                 *)
(*   opusconv.py   library walker and single-file cue splitter             *)
(*   opusencode.py ffmpeg wrapper (the transcode collaborator)             *)
(*   covercp.py    cover extraction and embedding                          *)
(*   coverfix.py   cover refresh cycle                                     *)
(*                                                                         *)
(* Text (titles, track numbers, file stems) is a sequence of one-character *)
(* strings; image data is a sequence of byte values 0..255.  A value that  *)
(* python represents by None is a record with a false presence flag, or    *)
(* the empty sequence where the code tests truthiness.                     *)
(***************************************************************************)
EXTENDS Integers, Sequences, FiniteSets, TLC

VARIABLES
    pc,           \* position of the modelled program
    inp,          \* arguments of the call under way (pure-function specifications)
    out,          \* what the call returned / how the process exited
    opus,         \* the destination .opus file a cover helper works on
    tree,         \* source tree: the set of source file paths
    cue_db,       \* what cueparse.py returns for each cue file of the tree
    disk,         \* destination tree: path -> produced file
    dirs,         \* destination directories made by os.makedirs
    cue_sources,  \* the claimed set of convert_directory
    run,          \* which run of convert_directory is under way
    ctx,          \* loop positions of convert_directory / process_cue
    log           \* history of the helper invocations of the run, in order

vars == <<pc, inp, out, opus, tree, cue_db, disk, dirs, cue_sources, run, ctx, log>>

walkVars == <<tree, cue_db, disk, dirs, cue_sources, run, ctx, log>>

-----------------------------------------------------------------------------
(* Bounds of the model *)

\* longest tail appended to a magic-byte prefix in the image inputs
MaxTail == 1
\* most picture blocks stored in an .opus file given to refresh_cover
MaxBlocks == 2
\* most entries in a container's tag dictionary
MaxTags == 2
\* longest track title drawn from the title alphabet
MaxTitleLen == 3
\* most tracks of a cue sheet given to process_cue on its own
MaxTracks == 2

-----------------------------------------------------------------------------
(* Sequence helpers *)

SeqsUpTo(S, n) == UNION { [1..k -> S] : k \in 0..n }

Range(s) == { s[i] : i \in 1..Len(s) }

\* python slice s[:n]
Prefix(s, n) == SubSeq(s, 1, IF Len(s) < n THEN Len(s) ELSE n)

-----------------------------------------------------------------------------
(* covercp.py / coverfix.py: picture blocks *)

FrontCover == 3

JPEG_MAGIC == <<255, 216, 255>>

PNG_MAGIC == <<137, 80, 78, 71, 13, 10, 26, 10>>

\* mutant: the PNG test dropped
SniffMimeNoPng(image_data) == "image/jpeg"

\* covercp.py:60-66
SniffMime(image_data) ==
    IF Prefix(image_data, 3) = JPEG_MAGIC THEN "image/jpeg"
    ELSE IF Prefix(image_data, 8) = PNG_MAGIC THEN "image/png"
    ELSE "image/jpeg"

\* mutagen Picture(): a fresh block, every field unset
NewPicture ==
    [type |-> 0, mime |-> "", desc |-> "", width |-> 0, height |-> 0,
     depth |-> 0, colors |-> 0, data |-> <<>>]

\* Picture.write(): the block's binary layout, field by field
PictureWrite(pic) ==
    <<pic.type, pic.mime, pic.desc, pic.width, pic.height, pic.depth,
      pic.colors, pic.data>>

\* Picture(raw): parse of the binary layout
PictureParse(raw) ==
    [type |-> raw[1], mime |-> raw[2], desc |-> raw[3], width |-> raw[4],
     height |-> raw[5], depth |-> raw[6], colors |-> raw[7], data |-> raw[8]]

\* covercp.py:54-66: the block embed_cover builds
PackPicture(image_data) ==
    [NewPicture EXCEPT !.data = image_data, !.type = FrontCover,
                       !.desc = "Front Cover", !.mime = SniffMime(image_data)]

\* An .opus file: its metadata_block_picture values (the field is present
\* iff there is at least one value) and how many times it was saved.
NoPictures == <<>>

EmbedFails == {"none", "open", "save"}

\* covercp.py:49-76.  fail: where an exception is raised, if anywhere.
embed_cover(file, image_data, fail) ==
    IF fail = "open" THEN [ok |-> FALSE, file |-> file]
    ELSE LET encoded == PictureWrite(PackPicture(image_data)) IN
         IF fail = "save" THEN [ok |-> FALSE, file |-> file]
         ELSE [ok |-> TRUE,
               file |-> [file EXCEPT !.pics = <<encoded>>, !.saves = @ + 1]]

\* mutant: the role is forced but the description is left as it was
FixPictureKeepDesc(pic) ==
    IF pic.type # FrontCover THEN [pic EXCEPT !.type = FrontCover] ELSE pic

\* coverfix.py:42-46
FixPicture(pic) ==
    IF pic.type # FrontCover
    THEN [pic EXCEPT !.type = FrontCover, !.desc = "Front Cover"]
    ELSE pic

RefreshFails == {"none", "open", "decode", "save1", "save2"}

\* coverfix.py:51-56: delete + save, then re-add + save.  A save that raises
\* leaves the file as the save before it left it.
RefreshWrite(file, new_pictures, fail) ==
    IF fail = "save1" THEN file
    ELSE IF fail = "save2" THEN [file EXCEPT !.pics = NoPictures, !.saves = @ + 1]
    ELSE [file EXCEPT !.pics = new_pictures, !.saves = @ + 2]

\* coverfix.py:26-61
refresh_cover(file, fail) ==
    IF fail = "open" THEN [status |-> "error", file |-> file]
    ELSE IF file.pics = NoPictures THEN [status |-> "skip", file |-> file]
    ELSE IF fail = "decode" THEN [status |-> "error", file |-> file]
    ELSE LET new_pictures ==
                 [i \in 1..Len(file.pics) |->
                     PictureWrite(FixPicture(PictureParse(file.pics[i])))]
             modified ==
                 \E i \in 1..Len(file.pics) :
                     PictureParse(file.pics[i]).type # FrontCover
             written == RefreshWrite(file, new_pictures, fail)
         IN  IF fail \in {"save1", "save2"}
             THEN [status |-> "error", file |-> written]
             ELSE [status |-> IF modified THEN "fixed" ELSE "refreshed",
                   file |-> written]

-----------------------------------------------------------------------------
(* State of the parts a specification does not use *)

NoWalk ==
    /\ tree = {}
    /\ cue_db = <<>>
    /\ disk = <<>>
    /\ dirs = {}
    /\ cue_sources = {}
    /\ run = ""
    /\ ctx = <<>>
    /\ log = <<>>

\* opusencode.py: a file ffmpeg has written completely (-vn: no picture)
NewOpus == [pics |-> NoPictures, saves |-> 0, complete |-> TRUE]

\* what a failed ffmpeg run may leave at its output path
PartialOpus == [pics |-> NoPictures, saves |-> 0, complete |-> FALSE]

-----------------------------------------------------------------------------
(* coverfix.py on one file *)

\* Picture blocks a file may hold before a refresh: any role, any description.
StoredRoles == {0, FrontCover, 4}

StoredDescs == {"", "Front Cover", "back"}

StoredBlocks ==
    { PictureWrite([NewPicture EXCEPT !.type = t, !.desc = d, !.width = w,
                                      !.mime = "image/png", !.data = <<137>>]) :
        t \in StoredRoles, d \in StoredDescs, w \in {0, 5} }

InitRefresh ==
    /\ pc = "coverfix"
    /\ opus \in { [pics |-> p, saves |-> 0] : p \in SeqsUpTo(StoredBlocks, MaxBlocks) }
    /\ inp = [before |-> opus]
    /\ out = [status |-> "", fail |-> "", printed |-> "", exit |-> 0]
    /\ NoWalk

\* coverfix.py:96-105: the line main prints for a status
CoverfixReport(status) ==
    CASE status = "skip" -> "[Skip] No cover"
      [] status = "fixed" -> "[Fixed] Type corrected & refreshed"
      [] status = "refreshed" -> "[OK] Refreshed"
      [] OTHER -> "[Error]"

\* coverfix.py:63-105 with one file as its target
CoverfixMain ==
    /\ pc = "coverfix"
    /\ \E fail \in RefreshFails :
          LET r == refresh_cover(opus, fail) IN
          /\ opus' = r.file
          /\ out' = [status |-> r.status, fail |-> fail,
                     printed |-> CoverfixReport(r.status), exit |-> 0]
    /\ pc' = "done"
    /\ UNCHANGED <<inp, walkVars>>

NextRefresh == CoverfixMain

SpecRefresh == InitRefresh /\ [][NextRefresh]_vars

\* C6: without an exception, refresh_cover on a file that holds picture blocks
\* returns 'fixed' when some block's role is not 3 and 'refreshed' when every
\* role is 3; afterwards every block has role 3, a corrected block is described
\* "Front Cover", a block whose role was 3 is unchanged, and the blocks are as
\* many and in the same order; a file without the field yields 'skip' and is
\* not saved.
RefreshRoleCorrection ==
    (pc = "done" /\ out.fail = "none") =>
        LET old == inp.before.pics
            new == opus.pics
        IN  IF old = NoPictures
            THEN out.status = "skip" /\ opus = inp.before
            ELSE /\ out.status =
                        (IF \E i \in 1..Len(old) : old[i][1] # 3
                         THEN "fixed" ELSE "refreshed")
                 /\ Len(new) = Len(old)
                 /\ \A i \in 1..Len(old) :
                       /\ new[i][1] = 3
                       /\ old[i][1] # 3 =>
                             /\ new[i][3] = "Front Cover"
                             /\ new[i][8] = old[i][8]
                       /\ old[i][1] = 3 => new[i] = old[i]

\* witness of C6: a two-block file, first block role 3, second not, is fixed
RefreshRoleCorrectionWitness ==
    /\ pc = "done"
    /\ out.status = "fixed"
    /\ Len(inp.before.pics) = 2
    /\ inp.before.pics[1][1] = 3
    /\ inp.before.pics[2][1] # 3
    /\ inp.before.pics[2][3] = "back"
    /\ opus.pics[2][3] = "Front Cover"

-----------------------------------------------------------------------------
(* covercp.py: extraction from a source container, embedding into the output *)

NoCover == [found |-> FALSE, data |-> <<>>]

SomeCover(bytes) == [found |-> TRUE, data |-> bytes]

StartsWith(s, prefix) ==
    /\ Len(s) >= Len(prefix)
    /\ \A i \in 1..Len(prefix) : s[i] = prefix[i]

APIC_PREFIX == <<"A", "P", "I", "C", ":">>

COVR_KEY == <<"c", "o", "v", "r">>

IsApic(entry) == StartsWith(entry.key, APIC_PREFIX)

IsCovr(entry) == entry.key = COVR_KEY

\* index of the first key that starts with 'APIC:', 0 if none
FirstApic(tags) ==
    IF \E i \in 1..Len(tags) : IsApic(tags[i])
    THEN CHOOSE i \in 1..Len(tags) :
            IsApic(tags[i]) /\ \A j \in 1..(i - 1) : ~IsApic(tags[j])
    ELSE 0

\* index of the 'covr' key, 0 if the dictionary has none
FirstCovr(tags) ==
    IF \E i \in 1..Len(tags) : IsCovr(tags[i])
    THEN CHOOSE i \in 1..Len(tags) : IsCovr(tags[i])
    ELSE 0

\* mutant: the atom cover list looked up before the attached-picture frames
extract_cover_covr_first(container) ==
    IF container.open # "ok" THEN NoCover
    ELSE IF container.hasPictures /\ container.pictures # <<>>
    THEN SomeCover(container.pictures[1])
    ELSE IF ~container.hasTags THEN NoCover
    ELSE LET c == FirstCovr(container.tags)
             a == FirstApic(container.tags)
         IN  IF c # 0 /\ container.tags[c].list # <<>>
             THEN SomeCover(container.tags[c].list[1])
             ELSE IF a # 0 THEN SomeCover(container.tags[a].data)
             ELSE NoCover

\* covercp.py:21-47.  container.open: "ok", "none" (File() returns None) or
\* "raise" (an exception while opening or scanning, caught at line 45).
extract_cover(container) ==
    IF container.open = "raise" THEN NoCover
    ELSE IF container.open = "none" THEN NoCover
    ELSE IF container.hasPictures /\ container.pictures # <<>>
    THEN SomeCover(container.pictures[1])
    ELSE IF ~container.hasTags THEN NoCover
    ELSE LET a == FirstApic(container.tags)
             c == FirstCovr(container.tags)
         IN  IF a # 0 THEN SomeCover(container.tags[a].data)
             ELSE IF c # 0 /\ container.tags[c].list # <<>>
             THEN SomeCover(container.tags[c].list[1])
             ELSE NoCover

\* Image inputs: every prefix of the two magic numbers, followed by a tail.
Tails == SeqsUpTo({0}, MaxTail)

MagicPrefixes ==
    { SubSeq(m, 1, k) : m \in {JPEG_MAGIC}, k \in 0..Len(JPEG_MAGIC) }
    \cup { SubSeq(m, 1, k) : m \in {PNG_MAGIC}, k \in 0..Len(PNG_MAGIC) }

ImageInputs == { p \o t : p \in MagicPrefixes, t \in Tails }

ALT_IMAGE == <<66, 77>>

TagEntry(key, data, list) == [key |-> key, data |-> data, list |-> list]

TagEntries(img) ==
    { TagEntry(APIC_PREFIX, img, <<>>),
      TagEntry(APIC_PREFIX \o <<"x">>, ALT_IMAGE, <<>>),
      TagEntry(<<"A", "P", "I", "C">>, ALT_IMAGE, <<>>),
      TagEntry(<<"T", "I", "T", "2">>, <<>>, <<>>),
      TagEntry(COVR_KEY, <<>>, <<>>),
      TagEntry(COVR_KEY, <<>>, <<img, ALT_IMAGE>>),
      TagEntry(COVR_KEY, <<>>, <<ALT_IMAGE>>) }

\* tag dictionaries: keys are unique
TagDicts(img) ==
    { t \in SeqsUpTo(TagEntries(img), MaxTags) :
        \A i, j \in 1..Len(t) : i # j => t[i].key # t[j].key }

Container(open, hasPictures, pictures, hasTags, tags) ==
    [open |-> open, hasPictures |-> hasPictures, pictures |-> pictures,
     hasTags |-> hasTags, tags |-> tags]

ContainersOf(img) ==
    { Container("none", FALSE, <<>>, FALSE, <<>>),
      Container("raise", FALSE, <<>>, FALSE, <<>>) }
    \cup { Container("ok", hp, IF hp THEN p ELSE <<>>, ht, IF ht THEN t ELSE <<>>) :
             hp \in BOOLEAN,
             p \in {<<>>, <<img>>, <<img, ALT_IMAGE>>, <<ALT_IMAGE, img>>},
             ht \in BOOLEAN,
             t \in TagDicts(img) }

Containers == UNION { ContainersOf(img) : img \in ImageInputs }

OldBlock ==
    PictureWrite([NewPicture EXCEPT !.type = 4, !.desc = "back",
                                    !.mime = "image/png", !.data = <<137>>])

InitCover ==
    /\ pc = "covercp"
    /\ opus \in { NewOpus, [NewOpus EXCEPT !.pics = <<OldBlock>>] }
    /\ inp \in { [source |-> c, before |-> opus] : c \in Containers }
    /\ out = [cover |-> NoCover, embedded |-> FALSE, printed |-> "", exit |-> 0]
    /\ NoWalk

\* covercp.py:78-94 with its two arguments given
CovercpMain ==
    /\ pc = "covercp"
    /\ LET cover_data == extract_cover(inp.source) IN
       IF ~cover_data.found
       THEN /\ out' = [cover |-> cover_data, embedded |-> FALSE,
                       printed |-> "No cover found", exit |-> 0]
            /\ opus' = opus
       ELSE \E fail \in EmbedFails :
               LET r == embed_cover(opus, cover_data.data, fail) IN
               /\ opus' = r.file
               /\ out' = [cover |-> cover_data, embedded |-> r.ok,
                          printed |-> IF r.ok THEN "Cover copied" ELSE "Warning",
                          exit |-> IF r.ok THEN 0 ELSE 1]
    /\ pc' = "done"
    /\ UNCHANGED <<inp, walkVars>>

NextCover == CovercpMain

SpecCover == InitCover /\ [][NextCover]_vars

\* C9: the block embed_cover stores has MIME image/jpeg when the image bytes
\* begin FF D8 FF, image/png when they begin 89 50 4E 47 0D 0A 1A 0A, and
\* image/jpeg for every other byte sequence; its role is 3 and its
\* description "Front Cover".
MimeSniffing ==
    (pc = "done" /\ out.embedded) =>
        LET bytes == out.cover.data
            expected ==
                IF StartsWith(bytes, <<255, 216, 255>>) THEN "image/jpeg"
                ELSE IF StartsWith(bytes, <<137, 80, 78, 71, 13, 10, 26, 10>>)
                THEN "image/png"
                ELSE "image/jpeg"
        IN  /\ Len(opus.pics) = 1
            /\ opus.pics[1][1] = 3
            /\ opus.pics[1][2] = expected
            /\ opus.pics[1][3] = "Front Cover"
            /\ opus.pics[1][8] = bytes

\* witness of C9: a PNG image followed by a tail was embedded as image/png
MimeSniffingWitness ==
    /\ pc = "done"
    /\ out.embedded
    /\ Len(out.cover.data) > 8
    /\ opus.pics[1][2] = "image/png"

\* C10: extract_cover returns the first picture-list entry when the picture
\* list is not empty, else the first APIC frame's bytes when the tags hold
\* one, else the first atom cover-list entry when there is one, else none; a
\* decode failure yields none; and when nothing was extracted covercp prints
\* "No cover found", exits 0 and leaves the destination unwritten.
ExtractDispatch ==
    pc = "done" =>
        LET c == inp.source
            apics == { i \in 1..Len(c.tags) : StartsWith(c.tags[i].key, APIC_PREFIX) }
            covrs == { i \in 1..Len(c.tags) :
                          c.tags[i].key = COVR_KEY /\ Len(c.tags[i].list) > 0 }
            first(S) == CHOOSE i \in S : \A j \in S : i <= j
            expected ==
                IF c.open # "ok" THEN NoCover
                ELSE IF c.hasPictures /\ Len(c.pictures) > 0
                THEN SomeCover(c.pictures[1])
                ELSE IF c.hasTags /\ apics # {}
                THEN SomeCover(c.tags[first(apics)].data)
                ELSE IF c.hasTags /\ covrs # {}
                THEN SomeCover(c.tags[first(covrs)].list[1])
                ELSE NoCover
        IN  /\ out.cover = expected
            /\ ~out.cover.found =>
                  /\ out.exit = 0
                  /\ out.printed = "No cover found"
                  /\ opus = inp.before

\* witness of C10: tags with the atom cover list ahead of an APIC frame give
\* the APIC frame's bytes
ExtractDispatchWitness ==
    /\ pc = "done"
    /\ inp.source.open = "ok"
    /\ inp.source.hasPictures /\ inp.source.pictures = <<>>
    /\ inp.source.hasTags
    /\ Len(inp.source.tags) = 2
    /\ inp.source.tags[1].key = COVR_KEY
    /\ inp.source.tags[1].list # <<>>
    /\ inp.source.tags[2].key = APIC_PREFIX
    /\ out.cover = SomeCover(inp.source.tags[2].data)

\* the missing-cover path of C10 is reached with an opened container
MissingCoverReached ==
    /\ pc = "done"
    /\ inp.source.open = "ok"
    /\ inp.source.hasTags
    /\ ~out.cover.found
    /\ out.exit = 0

-----------------------------------------------------------------------------
(* opusconv.py: bitrate classes, file names, cue resolution *)

EXT_LOSSLESS == {".flac", ".wav", ".aiff", ".ape", ".alac", ".tak"}

EXT_LOSSY == {".mp3", ".m4a", ".aac", ".ogg", ".wma"}

\* str.lower() on the extensions the model uses
Lower(ext) ==
    CASE ext = ".FLAC" -> ".flac"
      [] ext = ".CUE" -> ".cue"
      [] ext = ".Mp3" -> ".mp3"
      [] OTHER -> ext

NoBitrate == ""

\* opusconv.py:31-38
get_bitrate(extension) ==
    LET ext == Lower(extension) IN
    IF ext \in EXT_LOSSLESS THEN "96k"
    ELSE IF ext \in EXT_LOSSY THEN "192k"
    ELSE NoBitrate

ILLEGAL_CHARS == {"<", ">", ":", "\"", "/", "\\", "|", "?", "*"}

WHITESPACE == {" ", "\t"}

\* str.strip(): leading and trailing whitespace removed
RECURSIVE LStrip(_)
LStrip(s) ==
    IF s # <<>> /\ Head(s) \in WHITESPACE THEN LStrip(Tail(s)) ELSE s

RECURSIVE RStrip(_)
RStrip(s) ==
    IF s # <<>> /\ s[Len(s)] \in WHITESPACE
    THEN RStrip(SubSeq(s, 1, Len(s) - 1))
    ELSE s

Strip(s) == RStrip(LStrip(s))

\* re.sub(r'[<>:"/\\|?*]', '_', name)
ReplaceIllegal(name) ==
    [i \in 1..Len(name) |-> IF name[i] \in ILLEGAL_CHARS THEN "_" ELSE name[i]]

\* mutant: the illegal characters removed instead of replaced
sanitize_filename_drop(name) ==
    Strip(SelectSeq(name, LAMBDA ch : ch \notin ILLEGAL_CHARS))

\* opusconv.py:40-42
sanitize_filename(name) == Strip(ReplaceIllegal(name))

OPUS_EXT == <<".", "o", "p", "u", "s">>

\* opusconv.py:129: track.get('number', '00')
TrackNum(track) == IF track.hasNumber THEN track.number ELSE <<"0", "0">>

\* opusconv.py:130: track.get('title', f'Track {num}')
TrackTitle(track) ==
    IF track.hasTitle THEN track.title
    ELSE <<"T", "r", "a", "c", "k", " ">> \o TrackNum(track)

\* opusconv.py:129-132: out_name = f"{num} - {safe_title}.opus"
TrackOutName(track) ==
    TrackNum(track) \o <<" ", "-", " ">> \o sanitize_filename(TrackTitle(track))
        \o OPUS_EXT

\* Paths.  A source file is [dir, stem, ext]: "r" is the source root and "s"
\* a directory inside it.  A cue's FILE reference is [sub, stem, ext]: sub is
\* the directory part of the reference ("" when it is a bare file name).
SrcPath(dir, stem, ext) == [dir |-> dir, stem |-> stem, ext |-> ext]

NoPath == SrcPath("", <<>>, "")

Ref(sub, stem, ext) == [sub |-> sub, stem |-> stem, ext |-> ext]

\* cue_dir / sub.  "-" stands for a directory that does not exist.
JoinDir(dir, sub) ==
    IF sub = "" THEN dir
    ELSE IF dir = "r" /\ sub = "s" THEN "s"
    ELSE "-"

\* opusconv.py:92: cue_dir / ref_filename
RefPath(cue_dir, ref) == SrcPath(JoinDir(cue_dir, ref.sub), ref.stem, ref.ext)

\* opusconv.py:96: Path(ref_filename).stem, the final component without its
\* suffix: the directory part of the reference is dropped with the extension
RefStem(ref) == ref.stem

\* opusconv.py:97
CUE_AUDIO_EXTS == <<".flac", ".ape", ".wav", ".tak", ".mp3", ".m4a">>

\* opusconv.py:98: cue_dir / f"{ref_stem}{ext}"
Candidate(cue_dir, ref, ext) == SrcPath(cue_dir, RefStem(ref), ext)

\* opusconv.py:90-101.  files: the paths that exist.
find_audio_for_cue(files, cue_dir, ref) ==
    IF RefPath(cue_dir, ref) \in files THEN RefPath(cue_dir, ref)
    ELSE LET hits == { k \in 1..Len(CUE_AUDIO_EXTS) :
                          Candidate(cue_dir, ref, CUE_AUDIO_EXTS[k]) \in files }
         IN  IF hits = {} THEN NoPath
             ELSE Candidate(cue_dir, ref,
                            CUE_AUDIO_EXTS[CHOOSE k \in hits : \A j \in hits : k <= j])

-----------------------------------------------------------------------------
(* Track naming on its own *)

TitleChars == ILLEGAL_CHARS \cup {"a", " ", "\t"}

EXAMPLE_TITLE ==
    <<"M", "y", " ", "S", "o", "n", "g", ":", " ", "P", "t", ".", " ", "1", "/", "2">>

Titles == SeqsUpTo(TitleChars, MaxTitleLen) \cup {EXAMPLE_TITLE}

TrackNumbers == { <<"0", "3">>, <<"1", "1">> }

Track(hasNumber, number, hasTitle, title) ==
    [hasNumber |-> hasNumber, number |-> number, hasTitle |-> hasTitle,
     title |-> title]

NamingTracks ==
    { Track(TRUE, n, TRUE, t) : n \in TrackNumbers, t \in Titles }
    \cup { Track(TRUE, n, FALSE, <<>>) : n \in TrackNumbers }
    \cup { Track(FALSE, <<>>, FALSE, <<>>) }

InitNaming ==
    /\ pc = "name"
    /\ inp \in { [track |-> t] : t \in NamingTracks }
    /\ out = [name |-> <<>>]
    /\ opus = NewOpus
    /\ NoWalk

\* opusconv.py:129-133 for one track
NameTrack ==
    /\ pc = "name"
    /\ out' = [name |-> TrackOutName(inp.track)]
    /\ pc' = "done"
    /\ UNCHANGED <<inp, opus, walkVars>>

NextNaming == NameTrack

SpecNaming == InitNaming /\ [][NextNaming]_vars

-----------------------------------------------------------------------------
(* Cue resolution on its own *)

TRACK_STEM == <<"t", "r", "a", "c", "k">>

\* Files that may exist beside a cue in "r": one per candidate extension, the
\* same stem inside "r/s", and a file the candidates never name.
ResolveFiles ==
    { SrcPath("r", TRACK_STEM, CUE_AUDIO_EXTS[k]) : k \in 1..Len(CUE_AUDIO_EXTS) }
    \cup { SrcPath("s", TRACK_STEM, ".wav"), SrcPath("s", TRACK_STEM, ".flac"),
           SrcPath("r", TRACK_STEM, ".bin") }

ResolveRefs ==
    { Ref(sub, TRACK_STEM, ext) : sub \in {"", "s"}, ext \in {".wav", ".mp3", ".bin", ""} }

InitResolve ==
    /\ pc = "resolve"
    /\ tree \in SUBSET ResolveFiles
    /\ inp \in { [cue_dir |-> d, ref |-> r] : d \in {"r", "s"}, r \in ResolveRefs }
    /\ out = [path |-> NoPath]
    /\ opus = NewOpus
    /\ cue_db = <<>> /\ disk = <<>> /\ dirs = {} /\ cue_sources = {}
    /\ run = "" /\ ctx = <<>> /\ log = <<>>

\* opusconv.py:90-101 applied to the cue's directory and its reference
Resolve ==
    /\ pc = "resolve"
    /\ out' = [path |-> find_audio_for_cue(tree, inp.cue_dir, inp.ref)]
    /\ pc' = "done"
    /\ UNCHANGED <<inp, opus, walkVars>>

NextResolve == Resolve

SpecResolve == InitResolve /\ [][NextResolve]_vars

\* C7: find_audio_for_cue returns the literal reference when that file
\* exists; otherwise the reference with its extension stripped, retried with
\* each audio extension in the fixed order, first existing one; none exactly
\* when neither the literal file nor any such candidate exists.
CueResolution ==
    pc = "done" =>
        LET literal == SrcPath(JoinDir(inp.cue_dir, inp.ref.sub), inp.ref.stem,
                               inp.ref.ext)
            stripped(ext) == SrcPath(JoinDir(inp.cue_dir, inp.ref.sub),
                                     inp.ref.stem, ext)
            order == <<".flac", ".ape", ".wav", ".tak", ".mp3", ".m4a">>
            hits == { k \in 1..Len(order) : stripped(order[k]) \in tree }
        IN  out.path =
                IF literal \in tree THEN literal
                ELSE IF hits # {}
                THEN stripped(order[CHOOSE k \in hits : \A j \in hits : k <= j])
                ELSE NoPath

-----------------------------------------------------------------------------
(* opusconv.py: the helpers process_cue and convert_directory invoke *)

CueData(parsed, single_file, tracks, files) ==
    [parsed |-> parsed, single_file |-> single_file, tracks |-> tracks,
     files |-> files]

\* opusconv.py:54-62: None when cueparse.py fails or prints no JSON
NoCueData == CueData(FALSE, FALSE, <<>>, <<>>)

run_cueparse(cue_path) == cue_db[cue_path]

DstPath(dir, name) == [dir |-> dir, name |-> name]

JPEG_IMAGE == JPEG_MAGIC \o <<224>>

PNG_IMAGE == PNG_MAGIC \o <<0>>

\* The tag container mutagen opens for a source file of the model: a FLAC
\* picture list, ID3 tags with an APIC frame, or a container without cover.
SourceContainer(path) ==
    CASE Lower(path.ext) = ".flac" ->
            Container("ok", TRUE, <<JPEG_IMAGE>>, TRUE, <<>>)
      [] Lower(path.ext) = ".mp3" ->
            Container("ok", FALSE, <<>>, TRUE,
                      <<TagEntry(APIC_PREFIX, PNG_IMAGE, <<>>)>>)
      [] OTHER -> Container("ok", FALSE, <<>>, FALSE, <<>>)

\* opusencode.py:68-72 as run by ffmpeg: exit 0, or non-zero with no output
\* file, or non-zero with a partial output file
TranscodeResults == {"ok", "fail", "fail_partial"}

\* opusconv.py:78: result.returncode == 0
TranscodeSucceeded(result) == result = "ok"

\* opusencode.py:36-69: ffmpeg -y writes the output path, existing or not
run_opusencode(files, output_path, result) ==
    IF result = "fail" THEN files
    ELSE [p \in DOMAIN files \cup {output_path} |->
             IF p = output_path
             THEN (IF result = "ok" THEN NewOpus ELSE PartialOpus)
             ELSE files[p]]

Entry(op, src, dst, trim, result, track, before, after) ==
    [run |-> run, op |-> op, src |-> src, dst |-> dst, trim |-> trim,
     result |-> result, track |-> track, before |-> before, after |-> after]

\* opusconv.py:136 / 215: the destination exists, nothing is invoked
SkipEntry(src, dst, trim, track) ==
    Entry("skip", src, dst, trim, "exists", track, disk[dst].pics, disk[dst].pics)

\* covercp.py:78-94 as invoked by run_covercp (opusconv.py:80-83)
run_covercp(file, source, efail) ==
    LET cover_data == extract_cover(SourceContainer(source)) IN
    IF ~cover_data.found THEN [result |-> "no cover", file |-> file]
    ELSE LET r == embed_cover(file, cover_data.data, efail) IN
         [result |-> IF r.ok THEN "copied" ELSE "failed", file |-> r.file]

\* opusconv.py:153-155 and 220-222: transcode, then on success cover copy
\* from the source and cover refresh on the output
Produce(src, dst, trim, track, result, efail, rfail) ==
    LET encoded == run_opusencode(disk, dst, result)
        enc == Entry("transcode", src, dst, trim, result, track,
                     NoPictures, NoPictures)
        exists == dst \in DOMAIN encoded
    IN  IF ~TranscodeSucceeded(result)
        THEN [disk |-> encoded, entries |-> <<enc>>]
        ELSE LET made == IF exists THEN encoded[dst] ELSE PartialOpus
                 \* a helper given a path that does not exist fails on open
                 c == run_covercp(made, src, IF exists THEN efail ELSE "open")
                 f == refresh_cover(c.file, IF exists THEN rfail ELSE "open")
                 \* the tree keeps the file's content; saves counts the saves
                 \* of one helper process
                 kept == [f.file EXCEPT !.saves = 0]
             IN  [disk |-> IF exists THEN [encoded EXCEPT ![dst] = kept]
                           ELSE encoded,
                  entries |->
                     <<enc,
                       Entry("covercp", src, dst, trim, c.result, track,
                             made.pics, c.file.pics),
                       Entry("coverfix", src, dst, trim, f.status, track,
                             c.file.pics, f.file.pics)>>]

-----------------------------------------------------------------------------
(* opusconv.py: process_cue *)

\* opusconv.py:192-193: DEST_DIR / relative.parent, named by the source directory
DestSubdir(cue_path) == cue_path.dir

\* mutant: the check for an empty track list left out
ProcessCueStageNoTrackCheck(files, cue_path, cue_data) ==
    IF ~cue_data.parsed THEN "parse"
    ELSE IF ~cue_data.single_file THEN "single_file"
    ELSE IF cue_data.files = <<>> THEN "files"
    ELSE LET source_audio == find_audio_for_cue(files, cue_path.dir, cue_data.files[1])
         IN  IF source_audio = NoPath THEN "resolve"
             ELSE IF get_bitrate(source_audio.ext) = NoBitrate THEN "bitrate"
             ELSE "ok"

\* opusconv.py:105-123: the return statement process_cue leaves by, "ok"
\* when every precondition holds
ProcessCueStage(files, cue_path, cue_data) ==
    IF ~cue_data.parsed THEN "parse"
    ELSE IF ~cue_data.single_file THEN "single_file"
    ELSE IF cue_data.tracks = <<>> THEN "tracks"
    ELSE IF cue_data.files = <<>> THEN "files"
    ELSE LET source_audio == find_audio_for_cue(files, cue_path.dir, cue_data.files[1])
         IN  IF source_audio = NoPath THEN "resolve"
             ELSE IF get_bitrate(source_audio.ext) = NoBitrate THEN "bitrate"
             ELSE "ok"

\* where control goes when process_cue returns
ReturnPc(caller, ctodo, ftodo) ==
    IF caller = "top" THEN "returned"
    ELSE IF ctodo # {} THEN "cues"
    ELSE IF ftodo # {} THEN "files"
    ELSE "walk"

\* opusconv.py:103-126: process_cue up to the track loop
ProcessCueEnter(cue_path, caller, ctodo) ==
    LET cue_data == run_cueparse(cue_path)
        stage == ProcessCueStage(tree, cue_path, cue_data)
    IN  IF stage # "ok"
        THEN /\ out' = [ret |-> FALSE, stage |-> stage]
             /\ pc' = ReturnPc(caller, ctodo, ctx.ftodo)
             /\ ctx' = [ctx EXCEPT !.ctodo = ctodo, !.caller = caller]
             /\ UNCHANGED dirs
        ELSE /\ dirs' = dirs \cup {DestSubdir(cue_path)}
             /\ ctx' = [ctx EXCEPT
                           !.ctodo = ctodo, !.caller = caller, !.cue = cue_path,
                           !.source_audio =
                               find_audio_for_cue(tree, cue_path.dir, cue_data.files[1]),
                           !.i = 1]
             /\ IF cue_data.tracks = <<>>
                THEN \* an empty loop: line 157 is reached at once
                     /\ out' = [ret |-> TRUE, stage |-> "ok"]
                     /\ pc' = ReturnPc(caller, ctodo, ctx.ftodo)
                ELSE /\ out' = [ret |-> FALSE, stage |-> "ok"]
                     /\ pc' = "tracks"

\* mutant: the destination converted whether or not it exists
DestExistsNever(dest_path) == FALSE

\* opusconv.py:135 and 214: out_path.exists() / dest_path.exists()
DestExists(dest_path) == dest_path \in DOMAIN disk

\* mutant: the loop left at the first failed transcode
TrackLoopBreaksOnFailure(i, total, result) == i < total /\ result = "ok"

\* opusconv.py:128: the loop goes on to the next track whatever the result
TrackLoopContinues(i, total, result) == i < total

\* opusconv.py:128-157: one iteration of the track loop, and the return
\* after the last track
ProcessTrack ==
    /\ pc = "tracks"
    /\ LET cue_data == run_cueparse(ctx.cue)
           total == Len(cue_data.tracks)
           track == cue_data.tracks[ctx.i]
           out_path == DstPath(DestSubdir(ctx.cue), TrackOutName(track))
           after(result) ==
               IF TrackLoopContinues(ctx.i, total, result)
               THEN /\ ctx' = [ctx EXCEPT !.i = @ + 1]
                    /\ pc' = "tracks"
                    /\ UNCHANGED out
               ELSE /\ ctx' = ctx
                    /\ pc' = ReturnPc(ctx.caller, ctx.ctodo, ctx.ftodo)
                    /\ out' = [ret |-> TRUE, stage |-> "ok"]
       IN  IF DestExists(out_path)
           THEN /\ log' = Append(log, SkipEntry(ctx.source_audio, out_path, TRUE, ctx.i))
                /\ UNCHANGED disk
                /\ after("ok")
           ELSE \E result \in TranscodeResults, efail \in EmbedFails,
                   rfail \in RefreshFails :
                   LET r == Produce(ctx.source_audio, out_path, TRUE, ctx.i,
                                    result, efail, rfail)
                   IN  /\ disk' = r.disk
                       /\ log' = log \o r.entries
                       /\ after(result)
    /\ UNCHANGED <<inp, opus, tree, cue_db, dirs, cue_sources, run>>

NoCtx ==
    [dtodo |-> {}, dir |-> "", ctodo |-> {}, ftodo |-> {}, cue |-> NoPath,
     source_audio |-> NoPath, i |-> 0, caller |-> ""]

EmptyDisk == [p \in {} |-> NewOpus]

-----------------------------------------------------------------------------
(* process_cue on its own *)

A_STEM == <<"a">>

CUE_PATH == SrcPath("r", A_STEM, ".cue")

TRACK_01 == Track(TRUE, <<"0", "1">>, TRUE, <<"a">>)

TRACK_02 == Track(TRUE, <<"0", "2">>, TRUE, <<"a", ":">>)

CueTracks == { TRACK_01, TRACK_02, Track(FALSE, <<>>, FALSE, <<>>) }

CueRefs == { Ref("", A_STEM, ".flac"), Ref("", A_STEM, ".wav"), Ref("", A_STEM, ".bin") }

CueFileLists ==
    { <<>>, <<Ref("", A_STEM, ".bin"), Ref("", A_STEM, ".flac")>> }
    \cup { <<r>> : r \in CueRefs }

CueDataSet ==
    { NoCueData }
    \cup { CueData(TRUE, sf, t, f) :
             sf \in BOOLEAN, t \in SeqsUpTo(CueTracks, MaxTracks), f \in CueFileLists }

CueSources ==
    { SrcPath("r", A_STEM, ".flac"), SrcPath("r", A_STEM, ".mp3"),
      SrcPath("r", A_STEM, ".bin") }

\* a destination tree in which the first track's output already exists
DiskWithTrack01 ==
    [p \in { DstPath("r", TrackOutName(TRACK_01)) } |-> NewOpus]

InitCue ==
    /\ pc = "process_cue"
    /\ tree \in { {CUE_PATH} \cup a : a \in SUBSET CueSources }
    /\ cue_db \in { [c \in {CUE_PATH} |-> d] : d \in CueDataSet }
    /\ disk \in { EmptyDisk, DiskWithTrack01 }
    /\ dirs = IF disk = EmptyDisk THEN {} ELSE {"r"}
    /\ inp = [cue_path |-> CUE_PATH, dirs |-> dirs, disk |-> disk]
    /\ out = [ret |-> FALSE, stage |-> ""]
    /\ opus = NewOpus
    /\ cue_sources = {}
    /\ run = "first"
    /\ ctx = NoCtx
    /\ log = <<>>

\* opusconv.py:103-126 called with the cue's path and destination directory
ProcessCueCall ==
    /\ pc = "process_cue"
    /\ ProcessCueEnter(inp.cue_path, "top", {})
    /\ UNCHANGED <<inp, opus, tree, cue_db, disk, cue_sources, run, log>>

NextCue == ProcessCueCall \/ ProcessTrack

SpecCue == InitCue /\ [][NextCue]_vars


\* the log entries of track i, in order
TrackOps(i) == SelectSeq(log, LAMBDA e : e.track = i)

\* whether the destination of log entry k existed when the entry was made:
\* it was there at the start, or an earlier transcode left a file there
ExistedBefore(k) ==
    \/ log[k].dst \in DOMAIN inp.disk
    \/ \E j \in 1..(k - 1) :
          /\ log[j].op = "transcode"
          /\ log[j].dst = log[k].dst
          /\ log[j].result \in {"ok", "fail_partial"}

\* the tracks whose loop iteration is over
DoneTracks ==
    IF pc = "tracks" THEN 1..(ctx.i - 1)
    ELSE IF pc = "returned" /\ out.ret THEN 1..Len(cue_db[inp.cue_path].tracks)
    ELSE {}

\* C4: process_cue returns failure, having made no directory and invoked no
\* helper, whenever a precondition fails, and the preconditions are tested in
\* the order: parsed, single-file, a track, a referenced file, the first
\* reference resolves, the source's extension has a bitrate class.
SplitterPreconditions ==
    pc = "returned" =>
        LET d == cue_db[inp.cue_path]
            src == find_audio_for_cue(tree, inp.cue_path.dir, d.files[1])
            firstUnmet ==
                IF ~d.parsed THEN "parse"
                ELSE IF ~d.single_file THEN "single_file"
                ELSE IF Len(d.tracks) = 0 THEN "tracks"
                ELSE IF Len(d.files) = 0 THEN "files"
                ELSE IF src \notin tree THEN "resolve"
                ELSE IF Lower(src.ext) \notin (EXT_LOSSLESS \cup EXT_LOSSY) THEN "bitrate"
                ELSE "ok"
        IN  /\ out.ret = (firstUnmet = "ok")
            /\ out.stage = firstUnmet
            /\ firstUnmet # "ok" =>
                  /\ dirs = inp.dirs
                  /\ disk = inp.disk
                  /\ log = <<>>

\* witness of C4: a cue whose source resolves but has no bitrate class
\* (tracks and files present) is refused with nothing made
SplitterPreconditionsWitness ==
    /\ pc = "returned"
    /\ ~out.ret
    /\ out.stage = "bitrate"
    /\ Len(cue_db[inp.cue_path].tracks) = 2
    /\ dirs = {}
    /\ log = <<>>

\* the order of C4 is exercised: a cue that is not single-file and also has
\* neither tracks nor files is refused at the single-file test
SplitterOrderReached ==
    /\ pc = "returned"
    /\ out.stage = "single_file"
    /\ cue_db[inp.cue_path].tracks = <<>>
    /\ cue_db[inp.cue_path].files = <<>>

\* C5: every track whose output does not exist when the loop reaches it gets
\* exactly one transcode (a track whose output exists gets none); cover copy
\* from the original source and then cover refresh run on the track's output
\* exactly when its transcode succeeded, in that order; after a failed
\* transcode no cover helper runs and the loop still goes through every
\* remaining track.
TrackIsolation ==
    /\ \A k \in 1..Len(log) :
          /\ log[k].op = "skip" => ExistedBefore(k)
          /\ log[k].op = "transcode" => ~ExistedBefore(k)
    /\ \A i \in DoneTracks :
          LET ops == TrackOps(i)
              track == cue_db[inp.cue_path].tracks[i]
          IN  /\ Len(ops) \in {1, 3}
              /\ ops[1].op \in {"skip", "transcode"}
              /\ ops[1].dst = DstPath(inp.cue_path.dir, TrackOutName(track))
              /\ ops[1].trim
              /\ Len(ops) = 3 <=> (ops[1].op = "transcode" /\ ops[1].result = "ok")
              /\ Len(ops) = 3 =>
                    /\ ops[2].op = "covercp"
                    /\ ops[2].src = find_audio_for_cue(tree, inp.cue_path.dir,
                                                       cue_db[inp.cue_path].files[1])
                    /\ ops[2].dst = ops[1].dst
                    /\ ops[3].op = "coverfix"
                    /\ ops[3].dst = ops[1].dst
    /\ \A k \in 1..Len(log) : log[k].track \in DoneTracks

\* witness of C5: the first track's transcode failed and the second track
\* was still transcoded, copied and refreshed
TrackIsolationWitness ==
    /\ pc = "returned"
    /\ out.ret
    /\ Len(log) = 4
    /\ log[1].op = "transcode" /\ log[1].result = "fail" /\ log[1].track = 1
    /\ log[2].op = "transcode" /\ log[2].result = "ok" /\ log[2].track = 2
    /\ log[3].op = "covercp" /\ log[3].result = "copied"
    /\ log[4].op = "coverfix" /\ log[4].result = "refreshed"

\* C3: no error corrupts a produced file: a transcode is only invoked on a
\* destination that does not exist, a cover helper only on the file the
\* transcode before it has just produced, and a file whose refresh ended in
\* an error still holds the picture blocks it held before the refresh.
NoPartialCorruption ==
    \A k \in 1..Len(log) :
        /\ log[k].op = "transcode" => ~ExistedBefore(k)
        /\ log[k].op \in {"covercp", "coverfix"} =>
              \E j \in 1..(k - 1) :
                  /\ k - j <= 2
                  /\ log[j].op = "transcode"
                  /\ log[j].result = "ok"
                  /\ log[j].dst = log[k].dst
        /\ (log[k].op = "coverfix" /\ log[k].result = "error") =>
              log[k].after = log[k].before

-----------------------------------------------------------------------------
(* opusconv.py: convert_directory, run twice over an unchanged source tree *)

\* opusconv.py:174: source_dir.rglob("*.cue"), which matches case-sensitively
\* on the POSIX file system DEST_DIR names
IsCuePass1(path) == path.ext = ".cue"

\* opusconv.py:190: filename.lower().endswith('.cue')
IsCuePass2(path) == Lower(path.ext) = ".cue"

\* opusconv.py:176-182: the sources one cue file adds to the claimed set
ClaimedBy(files, cue_path, cue_data) ==
    IF ~cue_data.parsed \/ ~cue_data.single_file THEN {}
    ELSE { find_audio_for_cue(files, cue_path.dir, cue_data.files[k]) :
             k \in 1..Len(cue_data.files) } \ {NoPath}

\* opusconv.py:171-182: the first pass
FirstPass(files) ==
    UNION { ClaimedBy(files, c, run_cueparse(c)) : c \in { f \in files : IsCuePass1(f) } }

\* opusconv.py:212: DEST_DIR / relative.with_suffix('.opus')
StandaloneDest(source_path) == DstPath(source_path.dir, source_path.stem \o OPUS_EXT)

\* opusconv.py:185: the directories os.walk visits
WalkDirs(files) == {"r"} \cup { f.dir : f \in files }

FilesIn(files, dir) == { f \in files : f.dir = dir }

\* where the walk goes on inside a directory: its cue files first, then all
\* its files, then the next directory
NextInDir(ctodo, ftodo) ==
    IF ctodo # {} THEN "cues" ELSE IF ftodo # {} THEN "files" ELSE "walk"

\* opusconv.py:159-182: a run starts, the claimed set is built
Pass1 ==
    /\ pc = "convert_directory"
    /\ cue_sources' = FirstPass(tree)
    /\ ctx' = [NoCtx EXCEPT !.dtodo = WalkDirs(tree)]
    /\ pc' = "walk"
    /\ UNCHANGED <<inp, out, opus, tree, cue_db, disk, dirs, run, log>>

\* opusconv.py:185-186: os.walk yields the next directory, top down
WalkDir ==
    /\ pc = "walk"
    /\ \E d \in ctx.dtodo :
          /\ d = "r" \/ "r" \notin ctx.dtodo
          /\ LET ctodo == { f \in FilesIn(tree, d) : IsCuePass2(f) }
                 ftodo == FilesIn(tree, d)
             IN  /\ ctx' = [ctx EXCEPT !.dtodo = @ \ {d}, !.dir = d,
                                       !.ctodo = ctodo, !.ftodo = ftodo]
                 /\ pc' = NextInDir(ctodo, ftodo)
    /\ UNCHANGED <<inp, out, opus, tree, cue_db, disk, dirs, cue_sources, run, log>>

\* opusconv.py:189-198: one cue file of the directory
CueFile ==
    /\ pc = "cues"
    /\ \E cue_path \in ctx.ctodo :
          LET cue_data == run_cueparse(cue_path)
              rest == ctx.ctodo \ {cue_path}
          IN  IF cue_data.parsed /\ cue_data.single_file
              THEN ProcessCueEnter(cue_path, "walk", rest)
              ELSE /\ ctx' = [ctx EXCEPT !.ctodo = rest]
                   /\ pc' = NextInDir(rest, ctx.ftodo)
                   /\ UNCHANGED <<out, dirs>>
    /\ UNCHANGED <<inp, opus, tree, cue_db, disk, cue_sources, run, log>>

\* opusconv.py:208: source_path.resolve() in cue_sources
IsClaimed(source_path) == source_path \in cue_sources

\* opusconv.py:201-222: one file of the directory
StandaloneFile ==
    /\ pc = "files"
    /\ \E source_path \in ctx.ftodo :
          LET rest == ctx.ftodo \ {source_path}
              dest_path == StandaloneDest(source_path)
          IN  /\ ctx' = [ctx EXCEPT !.ftodo = rest]
              /\ pc' = NextInDir({}, rest)
              /\ IF get_bitrate(source_path.ext) = NoBitrate
                    \/ IsClaimed(source_path)
                 THEN UNCHANGED <<disk, dirs, log>>
                 ELSE IF DestExists(dest_path)
                 THEN /\ log' = Append(log, SkipEntry(source_path, dest_path, FALSE, 0))
                      /\ UNCHANGED <<disk, dirs>>
                 ELSE \E result \in TranscodeResults, efail \in EmbedFails,
                         rfail \in RefreshFails :
                         LET r == Produce(source_path, dest_path, FALSE, 0,
                                          result, efail, rfail)
                         IN  /\ dirs' = dirs \cup {dest_path.dir}
                             /\ disk' = r.disk
                             /\ log' = log \o r.entries
    /\ UNCHANGED <<inp, out, opus, tree, cue_db, cue_sources, run>>

\* the destinations a transcode of this run was invoked for that are still
\* missing: every transcode to them failed and left no file
LostDests ==
    { log[k].dst : k \in { j \in 1..Len(log) : log[j].op = "transcode" } }
        \ DOMAIN disk

\* opusconv.py:224 and 251-252: the run ends; the second run starts with the
\* tree the first run left
RunDone ==
    /\ pc = "walk"
    /\ ctx.dtodo = {}
    /\ IF run = "first"
       THEN /\ run' = "second"
            /\ pc' = "convert_directory"
            /\ inp' = [inp EXCEPT !.disk1 = disk, !.lost1 = LostDests]
            /\ log' = <<>>
       ELSE /\ pc' = "done"
            /\ UNCHANGED <<run, inp, log>>
    /\ UNCHANGED <<out, opus, tree, cue_db, disk, dirs, cue_sources, ctx>>

\* Source trees of the walk: at most two of three audio files (two of them
\* share a destination, one lies in the inner directory), and at most one
\* cue sheet.
WalkSources ==
    { SrcPath("r", A_STEM, ".flac"), SrcPath("r", A_STEM, ".mp3"),
      SrcPath("s", A_STEM, ".flac") }

WalkAudioSets == { a \in SUBSET WalkSources : a # WalkSources }

WalkCuePaths ==
    { SrcPath("r", A_STEM, ".cue"), SrcPath("r", A_STEM, ".CUE"),
      SrcPath("s", A_STEM, ".cue") }

WalkCueData ==
    { NoCueData,
      CueData(TRUE, FALSE, <<TRACK_01>>, <<Ref("", A_STEM, ".flac")>>),
      CueData(TRUE, TRUE, <<TRACK_01>>, <<>>),
      CueData(TRUE, TRUE, <<>>, <<Ref("", A_STEM, ".flac")>>),
      CueData(TRUE, TRUE, <<TRACK_01>>, <<Ref("", A_STEM, ".flac")>>),
      CueData(TRUE, TRUE, <<TRACK_01, TRACK_02>>, <<Ref("", A_STEM, ".wav")>>),
      CueData(TRUE, TRUE, <<TRACK_01, TRACK_01>>, <<Ref("s", A_STEM, ".flac")>>) }

InitWalk ==
    /\ pc = "convert_directory"
    /\ \E a \in WalkAudioSets :
          \/ /\ tree = a
             /\ cue_db = [c \in {} |-> NoCueData]
          \/ \E c \in WalkCuePaths, d \in WalkCueData :
                /\ tree = a \cup {c}
                /\ cue_db = [x \in {c} |-> d]
    /\ disk = EmptyDisk
    /\ dirs = {}
    /\ inp = [disk |-> disk, disk1 |-> disk, lost1 |-> {}]
    /\ out = [ret |-> FALSE, stage |-> ""]
    /\ opus = NewOpus
    /\ cue_sources = {}
    /\ run = "first"
    /\ ctx = NoCtx
    /\ log = <<>>

NextWalk == Pass1 \/ WalkDir \/ CueFile \/ ProcessTrack \/ StandaloneFile \/ RunDone

SpecWalk == InitWalk /\ [][NextWalk]_vars


\* the sources some single-file cue sheet of the tree references, as
\* find_audio_for_cue resolves them
ReferencedByCue ==
    UNION { { find_audio_for_cue(tree, c.dir, cue_db[c].files[k]) :
                k \in 1..Len(cue_db[c].files) } \ {NoPath} :
            c \in { f \in tree : Lower(f.ext) = ".cue" /\ cue_db[f].parsed
                                   /\ cue_db[f].single_file } }

\* C2: no standalone (untrimmed) transcode is ever invoked on a source that a
\* single-file cue sheet of the tree references and find_audio_for_cue
\* resolves, in whatever order the directories and files are visited.
ClaimedSetExclusion ==
    \A k \in 1..Len(log) :
        ~(log[k].op = "transcode" /\ ~log[k].trim /\ log[k].src \in ReferencedByCue)

\* C1 as stated: the second run invokes no transcode, no cover copy and no
\* cover refresh.
SecondRunWritesNothing ==
    run = "second" => \A k \in 1..Len(log) : log[k].op = "skip"

\* C1 amended: the second run leaves every file the first run left as it is,
\* and invokes a helper only for a destination whose first-run transcode
\* failed without leaving a file; when there is no such destination it
\* invokes none.
SecondRunRetriesOnlyLost ==
    run = "second" =>
        /\ \A k \in 1..Len(log) : log[k].op # "skip" => log[k].dst \in inp.lost1
        /\ \A p \in DOMAIN inp.disk1 : p \in DOMAIN disk /\ disk[p] = inp.disk1[p]
        /\ inp.lost1 = {} => \A k \in 1..Len(log) : log[k].op = "skip"

\* witness of C1: a second run over a tree whose first run produced two
\* track outputs and a standalone output ends having skipped all three
SecondRunWitness ==
    /\ run = "second"
    /\ pc = "done"
    /\ inp.lost1 = {}
    /\ Len(log) = 3
    /\ \A k \in 1..3 : log[k].op = "skip"
    /\ \E k \in 1..3 : log[k].trim
    /\ \E k \in 1..3 : ~log[k].trim
    /\ \A p \in DOMAIN disk : disk[p].complete

\* a second run that retries a destination the first run failed to produce
SecondRunRetryReached ==
    /\ run = "second"
    /\ inp.lost1 # {}
    /\ \E k \in 1..Len(log) : log[k].op = "transcode" /\ log[k].result = "ok"

=============================================================================
